---- MODULE Spec2Model ----
(***************************************************************************)
(* Model of compressImageFileWithLimit (src/src/utils/compressImageFile.ts) *)
(* One invocation: type check, FileReader read, image decode, dimension    *)
(* planning, the do-while encode loop, and the construction of the result  *)
(* File from the last data URL.                                            *)
(*                                                                         *)
(* Strings are sequences of one-character strings, so that startsWith,     *)
(* split, the two regular expressions and base64 are computed on           *)
(* characters.  Qualities are counted in hundredths (0.92 is 92) and       *)
(* scale factors are exact fractions <<num, den>>; Math.round of a product *)
(* is computed on the fraction.  For the default qualities the exact       *)
(* values and the doubles of the source give the same attempts             *)
(* (0.92, 0.85, ..., 0.57, then the loop test fails).                      *)
(***************************************************************************)
EXTENDS Integers, Sequences, FiniteSets, TLC

VARIABLES
  pc,                 \* position of the invocation
  file,               \* the input File
  cfg,                \* the options object after defaults
  quality,            \* let quality (line 51)
  img,                \* the decoded HTMLImageElement: [width, height]
  width, height,      \* let width / let height (lines 56-57, 65-66)
  scale,              \* let scale (line 62), a fraction <<num, den>>
  compressedDataURL,  \* let compressedDataURL (line 70)
  blobSize,           \* blob.size of the last attempt (line 80)
  result,             \* the returned File: {} until the promise resolves
  error,              \* the rejection reason, "" while there is none
  calls,              \* number of decode / rasterize / encode calls made
  usedDims,           \* canvas sizes the attempts were made with
  tried,              \* qualities passed to toDataURL, in order
  allOver,            \* every attempt so far was over maxSizeBytes
  firstFits,          \* the first attempt was within maxSizeBytes
  lastBytes           \* bytes the encoder produced in the last attempt

vars == <<pc, file, cfg, quality, img, width, height, scale, compressedDataURL,
          blobSize, result, error, calls, usedDims, tried, allOver, firstFits,
          lastBytes>>

(***************************************************************************)
(* Bounds of the model                                                     *)
(***************************************************************************)
MaxDim == 8
MaxLimit == 6
MaxBytes == 4
MaxQuality == 6
MaxStep == 3
MaxNameLen == 4

(***************************************************************************)
(* Defaults of the options object (lines 14-20); qualities in hundredths   *)
(***************************************************************************)
DefaultMaxLongSide == 1568
DefaultMaxShortSide == 768
DefaultMaxSizeBytes == 19 * 1024 * 1024
DefaultInitialQuality == 92
DefaultMinQuality == 50
DefaultQualityStep == 7

(***************************************************************************)
(* Strings                                                                 *)
(***************************************************************************)
ImagePrefix == <<"i", "m", "a", "g", "e", "/">>
MimeWebp == <<"i", "m", "a", "g", "e", "/", "w", "e", "b", "p">>
MimeJpeg == <<"i", "m", "a", "g", "e", "/", "j", "p", "e", "g">>
MimePng == <<"i", "m", "a", "g", "e", "/", "p", "n", "g">>
MimePdf == <<"a", "p", "p", "l", "i", "c", "a", "t", "i", "o", "n", "/", "p", "d", "f">>
MimeBareImage == <<"i", "m", "a", "g", "e">>
DotWebp == <<".", "w", "e", "b", "p">>
DataScheme == <<"d", "a", "t", "a", ":">>
Base64Marker == <<";", "b", "a", "s", "e", "6", "4">>
EmptyDataURL == <<"d", "a", "t", "a", ":", ",">>

Min(a, b) == IF a <= b THEN a ELSE b
Max(a, b) == IF a >= b THEN a ELSE b

StartsWithImage_NoSlash(type) ==
  /\ Len(type) >= Len(MimeBareImage)
  /\ SubSeq(type, 1, Len(MimeBareImage)) = MimeBareImage

\* file.type.startsWith('image/')
StartsWithImage(type) ==
  /\ Len(type) >= Len(ImagePrefix)
  /\ SubSeq(type, 1, Len(ImagePrefix)) = ImagePrefix


\* First index i >= from with s[i] = c, or 0 when there is none.
IndexOf(s, c, from) ==
  IF \E i \in from..Len(s) : s[i] = c
  THEN CHOOSE i \in from..Len(s) : s[i] = c /\ \A j \in from..(i - 1) : s[j] # c
  ELSE 0

(***************************************************************************)
(* base64, as canvas.toDataURL writes it and atob / fetch read it          *)
(***************************************************************************)
Base64Alphabet == <<
  "A", "B", "C", "D", "E", "F", "G", "H", "I", "J", "K", "L", "M", "N", "O", "P",
  "Q", "R", "S", "T", "U", "V", "W", "X", "Y", "Z", "a", "b", "c", "d", "e", "f",
  "g", "h", "i", "j", "k", "l", "m", "n", "o", "p", "q", "r", "s", "t", "u", "v",
  "w", "x", "y", "z", "0", "1", "2", "3", "4", "5", "6", "7", "8", "9", "+", "/">>

Base64Char(v) == Base64Alphabet[v + 1]

Base64Value(c) == (CHOOSE i \in 1..64 : Base64Alphabet[i] = c) - 1

RECURSIVE Base64Encode(_)
Base64Encode(b) ==
  IF Len(b) = 0 THEN <<>>
  ELSE IF Len(b) = 1 THEN
    <<Base64Char(b[1] \div 4), Base64Char((b[1] % 4) * 16), "=", "=">>
  ELSE IF Len(b) = 2 THEN
    <<Base64Char(b[1] \div 4), Base64Char((b[1] % 4) * 16 + b[2] \div 16),
      Base64Char((b[2] % 16) * 4), "=">>
  ELSE
    <<Base64Char(b[1] \div 4), Base64Char((b[1] % 4) * 16 + b[2] \div 16),
      Base64Char((b[2] % 16) * 4 + b[3] \div 64), Base64Char(b[3] % 64)>>
      \o Base64Encode(SubSeq(b, 4, Len(b)))

\* Trailing "=" or "==" of a string whose length is a multiple of four is dropped.
StripPadding(s) ==
  IF Len(s) > 0 /\ Len(s) % 4 = 0 /\ s[Len(s)] = "="
  THEN IF s[Len(s) - 1] = "=" THEN SubSeq(s, 1, Len(s) - 2)
       ELSE SubSeq(s, 1, Len(s) - 1)
  ELSE s

RECURSIVE DecodeSextets(_)
DecodeSextets(s) ==
  IF Len(s) < 2 THEN <<>>
  ELSE LET v1 == Base64Value(s[1])
           v2 == Base64Value(s[2])
       IN IF Len(s) = 2 THEN <<v1 * 4 + v2 \div 16>>
          ELSE LET v3 == Base64Value(s[3])
               IN IF Len(s) = 3
                  THEN <<v1 * 4 + v2 \div 16, (v2 % 16) * 16 + v3 \div 4>>
                  ELSE LET v4 == Base64Value(s[4])
                       IN <<v1 * 4 + v2 \div 16, (v2 % 16) * 16 + v3 \div 4,
                            (v3 % 4) * 64 + v4>>
                            \o DecodeSextets(SubSeq(s, 5, Len(s)))

\* atob(arr[1]): the binary string, one code unit per byte
Atob(s) == DecodeSextets(StripPadding(s))

BytesOfBinaryString_SkipFirst(bstr) ==
  [n \in 1..Len(bstr) |-> IF n = 1 THEN 0 ELSE bstr[n]]

\* while (n--) u8arr[n] = bstr.charCodeAt(n)
BytesOfBinaryString(bstr) ==
  [n \in 1..Len(bstr) |-> bstr[n]]

(***************************************************************************)
(* The data URL of an attempt                                              *)
(***************************************************************************)
\* compressedDataURL.split(',')[0]
SplitHead(url) ==
  LET k == IndexOf(url, ",", 1)
  IN IF k = 0 THEN url ELSE SubSeq(url, 1, k - 1)

\* compressedDataURL.split(',')[1]
SplitSecond(url) ==
  LET k == IndexOf(url, ",", 1)
      m == IndexOf(url, ",", k + 1)
  IN IF m = 0 THEN SubSeq(url, k + 1, Len(url)) ELSE SubSeq(url, k + 1, m - 1)

\* arr[0].match(/:(.*?);/): {the capture group}, or {} for null
MatchMime(head) ==
  LET i == IndexOf(head, ":", 1)
      j == IF i = 0 THEN 0 ELSE IndexOf(head, ";", i + 1)
  IN IF i = 0 \/ j = 0 THEN {} ELSE {SubSeq(head, i + 1, j - 1)}

EndsWithBase64(head) ==
  /\ Len(head) >= Len(Base64Marker)
  /\ SubSeq(head, Len(head) - Len(Base64Marker) + 1, Len(head)) = Base64Marker

\* (await (await fetch(compressedDataURL)).blob()).size
BlobSizeOf(url) ==
  LET k == IndexOf(url, ",", 1)
      body == SubSeq(url, k + 1, Len(url))
  IN IF EndsWithBase64(SplitHead(url)) THEN Len(Atob(body)) ELSE Len(body)

(***************************************************************************)
(* The output name                                                         *)
(***************************************************************************)
WordChars == {
  "a", "b", "c", "d", "e", "f", "g", "h", "i", "j", "k", "l", "m", "n", "o", "p",
  "q", "r", "s", "t", "u", "v", "w", "x", "y", "z", "A", "B", "C", "D", "E", "F",
  "G", "H", "I", "J", "K", "L", "M", "N", "O", "P", "Q", "R", "S", "T", "U", "V",
  "W", "X", "Y", "Z", "0", "1", "2", "3", "4", "5", "6", "7", "8", "9", "_"}

\* Start of the match of /\.\w+$/ in name, or 0 when it does not match.
ExtensionStart(name) ==
  IF \E i \in 1..(Len(name) - 1) :
       name[i] = "." /\ \A j \in (i + 1)..Len(name) : name[j] \in WordChars
  THEN CHOOSE i \in 1..(Len(name) - 1) :
       name[i] = "." /\ \A j \in (i + 1)..Len(name) : name[j] \in WordChars
  ELSE 0

\* file.name.replace(/\.\w+$/, '.webp')
OutputName(name) ==
  LET i == ExtensionStart(name)
  IN IF i = 0 THEN name ELSE SubSeq(name, 1, i - 1) \o DotWebp

(***************************************************************************)
(* Dimension planning (lines 56-67)                                        *)
(***************************************************************************)
IsPortrait(w, h) == h >= w

ShortSide(w, h) == IF IsPortrait(w, h) THEN w ELSE h

LongSide(w, h) == IF IsPortrait(w, h) THEN h ELSE w

NeedsResize_Swapped(short, long, c) ==
  short > c.maxLongSide \/ long > c.maxShortSide

NeedsResize_Always(short, long, c) == TRUE

\* shortSide > maxShortSide || longSide > maxLongSide
NeedsResize(short, long, c) ==
  short > c.maxShortSide \/ long > c.maxLongSide

MinScale_Max(short, long, c) ==
  IF c.maxShortSide * long >= c.maxLongSide * short
  THEN <<c.maxShortSide, short>>
  ELSE <<c.maxLongSide, long>>

\* Math.min(maxShortSide / shortSide, maxLongSide / longSide), as a fraction:
\* a/b <= c/d iff a*d <= c*b for positive b, d.
MinScale(short, long, c) ==
  IF c.maxShortSide * long <= c.maxLongSide * short
  THEN <<c.maxShortSide, short>>
  ELSE <<c.maxLongSide, long>>

\* Math.round(v * scale): the nearest integer, halves up
RoundScaled(v, s) == (2 * v * s[1] + s[2]) \div (2 * s[2])

\* Lines 56-67: the scale and the canvas size for an image of w x h.
PlanOf(w, h, c) ==
  LET short == ShortSide(w, h)
      long == LongSide(w, h)
  IN IF NeedsResize(short, long, c)
     THEN LET sc == MinScale(short, long, c)
          IN [scale |-> sc, width |-> RoundScaled(w, sc), height |-> RoundScaled(h, sc)]
     ELSE [scale |-> <<1, 1>>, width |-> w, height |-> h]

(***************************************************************************)
(* The encode loop (lines 72-82)                                           *)
(***************************************************************************)
NextQuality_Raise(q, step) == q + step

\* quality -= qualityStep
NextQuality(q, step) == q - step

ContinueLoop_Or(size, q, c) == size > c.maxSizeBytes \/ q > c.minQuality

\* while (blob.size > maxSizeBytes && quality > minQuality)
ContinueLoop(size, q, c) == size > c.maxSizeBytes /\ q > c.minQuality

RECURSIVE SeqsUpTo(_, _)
SeqsUpTo(S, n) ==
  IF n = 0 THEN {<<>>}
  ELSE LET shorter == SeqsUpTo(S, n - 1)
       IN shorter \cup {Append(q, x) : q \in shorter, x \in S}

\* The byte buffers an encoder may produce: of every length up to MaxBytes,
\* with two different contents for each length.
EncodedBuffers ==
  {[i \in 1..n |-> IF (i + k) % 2 = 0 THEN 77 ELSE 182] : n \in 0..MaxBytes, k \in 0..1}

\* The types a canvas may serialise to when asked for mime: the requested type
\* where the browser supports it, image/png otherwise.
OutMimes(mime) ==
  IF mime = MimePng THEN {MimePng}
  ELSE IF mime = MimeJpeg THEN {MimeJpeg}
  ELSE IF mime = MimeWebp THEN {MimeWebp, MimePng}
  ELSE {MimePng}

\* canvas.toDataURL(mimeType, quality) for a canvas of w x h: "data:," when the
\* canvas has no pixels or cannot be serialised, else the base64 data URL of
\* the bytes the encoder produced.
ToDataURL(w, h, mime) ==
  {[url |-> EmptyDataURL, bytes |-> <<>>]} \cup
  IF w = 0 \/ h = 0 THEN {}
  ELSE {[url |-> DataScheme \o m \o Base64Marker \o <<",">> \o Base64Encode(b),
         bytes |-> b] : m \in OutMimes(mime), b \in EncodedBuffers}

(***************************************************************************)
(* Inputs: the File and the options of one invocation                      *)
(***************************************************************************)
NamePhoto == <<"a", ".", "p", "n", "g">>

NameChars == {"a", ".", "-"}

Names == SeqsUpTo(NameChars, MaxNameLen)

FileTypes == {MimePng, MimeJpeg, MimePdf, MimeBareImage, <<>>}

\* A File; width and height are the size its content decodes to.
FileOf(type, name, w, h) ==
  [type |-> type, name |-> name, bytes |-> <<77, 182>>, width |-> w, height |-> h]

PdfFile == FileOf(MimePdf, <<"a", ".", "p", "d", "f">>, 0, 0)

DefaultConfig ==
  [maxLongSide |-> DefaultMaxLongSide, maxShortSide |-> DefaultMaxShortSide,
   maxSizeBytes |-> DefaultMaxSizeBytes, mimeType |-> MimeWebp,
   initialQuality |-> DefaultInitialQuality, minQuality |-> DefaultMinQuality,
   qualityStep |-> DefaultQualityStep]

\* Images of every small size, and the sizes of the documented scenarios.
FilesPlan ==
  {FileOf(MimePng, NamePhoto, w, h) : w \in 1..MaxDim, h \in 1..MaxDim}
    \cup {FileOf(MimePng, NamePhoto, 3000, 2000), FileOf(MimePng, NamePhoto, 500, 400),
          FileOf(MimePng, NamePhoto, 1, 10000), PdfFile}

ConfigsPlan ==
  {[DefaultConfig EXCEPT !.maxShortSide = s, !.maxLongSide = l, !.maxSizeBytes = 1,
                         !.mimeType = MimeJpeg, !.initialQuality = 2,
                         !.minQuality = 0, !.qualityStep = 1] :
     s \in 1..MaxLimit, l \in 1..MaxLimit}
    \cup {DefaultConfig}

FilesLoop == {FileOf(MimeJpeg, NamePhoto, 2, 2), PdfFile}

ConfigsLoop ==
  {[DefaultConfig EXCEPT !.maxSizeBytes = m, !.mimeType = MimeJpeg,
                         !.initialQuality = i, !.minQuality = q, !.qualityStep = st] :
     m \in 0..(MaxBytes - 1), i \in 0..MaxQuality, q \in 0..MaxQuality,
     st \in 0..MaxStep}
    \cup {DefaultConfig, [DefaultConfig EXCEPT !.maxSizeBytes = 0]}

FilesName == {FileOf(t, n, 2, 2) : t \in FileTypes, n \in Names}

ConfigsName == {[DefaultConfig EXCEPT !.mimeType = m] : m \in {MimeWebp, MimeJpeg, MimePng}}

\* The loop is cut off after this many attempts (it need not end when
\* qualityStep <= 0); larger than any number of attempts a positive step allows.
AttemptCap == Max(MaxQuality, (DefaultInitialQuality - DefaultMinQuality) \div DefaultQualityStep) + 3

(***************************************************************************)
(* The invocation                                                          *)
(***************************************************************************)
InitWith(files, configs) ==
  /\ file \in files
  /\ cfg \in configs
  /\ pc = "start"
  /\ quality = 0
  /\ img = [width |-> 0, height |-> 0]
  /\ width = 0
  /\ height = 0
  /\ scale = <<1, 1>>
  /\ compressedDataURL = <<>>
  /\ blobSize = 0
  /\ result = {}
  /\ error = ""
  /\ calls = [decode |-> 0, rasterize |-> 0, encode |-> 0]
  /\ usedDims = {}
  /\ tried = <<>>
  /\ allOver = FALSE
  /\ firstFits = FALSE
  /\ lastBytes = <<>>

InitPlan == InitWith(FilesPlan, ConfigsPlan)

InitLoop == InitWith(FilesLoop, ConfigsLoop)

InitName == InitWith(FilesName, ConfigsName)

Init == InitPlan \/ InitLoop \/ InitName

\* Line 31: if (!file.type.startsWith('image/')) return file
PassThrough ==
  /\ pc = "start"
  /\ ~StartsWithImage(file.type)
  /\ result' = {file}
  /\ pc' = "returned"
  /\ UNCHANGED <<file, cfg, quality, img, width, height, scale, compressedDataURL,
                 blobSize, error, calls, usedDims, tried, allOver, firstFits,
                 lastBytes>>

\* Lines 51-52: quality = initialQuality; await fileToDataURL(file)
ReadFile ==
  /\ pc = "start"
  /\ StartsWithImage(file.type)
  /\ quality' = cfg.initialQuality
  /\ \/ pc' = "read" /\ error' = error
     \/ pc' = "error" /\ error' = "FileReader error"
  /\ UNCHANGED <<file, cfg, img, width, height, scale, compressedDataURL, blobSize,
                 result, calls, usedDims, tried, allOver, firstFits, lastBytes>>

\* Line 53: await dataURLToImage(dataURL)
LoadImage ==
  /\ pc = "read"
  /\ calls' = [calls EXCEPT !.decode = @ + 1]
  /\ \/ /\ img' = [width |-> file.width, height |-> file.height]
        /\ pc' = "plan"
        /\ error' = error
     \/ /\ img' = img
        /\ pc' = "error"
        /\ error' = "Image load error"
  /\ UNCHANGED <<file, cfg, quality, width, height, scale, compressedDataURL,
                 blobSize, result, usedDims, tried, allOver, firstFits, lastBytes>>

\* Lines 56-67
PlanDimensions ==
  /\ pc = "plan"
  /\ LET plan == PlanOf(img.width, img.height, cfg)
     IN /\ scale' = plan.scale
        /\ width' = plan.width
        /\ height' = plan.height
  /\ pc' = "encode"
  /\ UNCHANGED <<file, cfg, quality, img, compressedDataURL, blobSize, result, error,
                 calls, usedDims, tried, allOver, firstFits, lastBytes>>

\* Lines 73-82: one pass of the do-while loop and its test
EncodeAttempt ==
  /\ pc = "encode"
  /\ Len(tried) < AttemptCap
  /\ \E out \in ToDataURL(width, height, cfg.mimeType) :
       LET size == BlobSizeOf(out.url)
           q == NextQuality(quality, cfg.qualityStep)
       IN /\ compressedDataURL' = out.url
          /\ blobSize' = size
          /\ quality' = q
          /\ lastBytes' = out.bytes
          /\ allOver' = ((tried = <<>> \/ allOver) /\ size > cfg.maxSizeBytes)
          /\ firstFits' = IF tried = <<>> THEN size <= cfg.maxSizeBytes ELSE firstFits
          /\ pc' = IF ContinueLoop(size, q, cfg) THEN "encode" ELSE "build"
  /\ usedDims' = usedDims \cup {<<width, height>>}
  /\ tried' = Append(tried, quality)
  /\ calls' = [calls EXCEPT !.rasterize = @ + 1, !.encode = @ + 1]
  /\ UNCHANGED <<file, cfg, img, width, height, scale, result, error>>

\* Lines 85-91: the File built from the last data URL; null![1] throws
BuildResult ==
  /\ pc = "build"
  /\ LET arr0 == SplitHead(compressedDataURL)
         arr1 == SplitSecond(compressedDataURL)
         m == MatchMime(arr0)
     IN IF m = {}
        THEN /\ pc' = "error"
             /\ error' = "TypeError"
             /\ result' = result
        ELSE /\ pc' = "done"
             /\ error' = error
             /\ result' = {[type |-> CHOOSE outMime \in m : TRUE,
                            name |-> OutputName(file.name),
                            bytes |-> BytesOfBinaryString(Atob(arr1))]}
  /\ UNCHANGED <<file, cfg, quality, img, width, height, scale, compressedDataURL,
                 blobSize, calls, usedDims, tried, allOver, firstFits, lastBytes>>

Next ==
  \/ PassThrough
  \/ ReadFile
  \/ LoadImage
  \/ PlanDimensions
  \/ EncodeAttempt
  \/ BuildResult

Spec == Init /\ [][Next]_vars

SpecPlan == InitPlan /\ [][Next]_vars

SpecLoop == InitLoop /\ [][Next]_vars

SpecName == InitName /\ [][Next]_vars

(***************************************************************************)
(* Vocabulary of the properties                                            *)
(***************************************************************************)
\* The dimensions have been planned (PlanDimensions has run).
Planned == pc \in {"encode", "build", "done"} \/ error = "TypeError"

ImgShort == Min(img.width, img.height)

ImgLong == Max(img.width, img.height)

WithinLimits == ImgShort <= cfg.maxShortSide /\ ImgLong <= cfg.maxLongSide

DeclaredImage ==
  /\ Len(file.type) >= Len(ImagePrefix)
  /\ \A i \in 1..Len(ImagePrefix) : file.type[i] = ImagePrefix[i]

CeilDiv(a, b) == (a + b - 1) \div b

LoopConfigValid == cfg.qualityStep > 0 /\ cfg.minQuality < cfg.initialQuality

AttemptBound == CeilDiv(cfg.initialQuality - cfg.minQuality, cfg.qualityStep) + 1

LowestTried == CHOOSE q \in {tried[i] : i \in 1..Len(tried)} :
                 \A j \in 1..Len(tried) : q <= tried[j]

EndsWith(s, suffix) ==
  /\ Len(s) >= Len(suffix)
  /\ SubSeq(s, Len(s) - Len(suffix) + 1, Len(s)) = suffix

\* The canonical extensions of an output mime type.
CanonicalExtensions(mime) ==
  IF mime = MimeWebp THEN {DotWebp}
  ELSE IF mime = MimeJpeg THEN {<<".", "j", "p", "g">>, <<".", "j", "p", "e", "g">>}
  ELSE IF mime = MimePng THEN {<<".", "p", "n", "g">>}
  ELSE {}

(***************************************************************************)
(* Properties                                                              *)
(***************************************************************************)
\* C1: when the decoded image exceeds a limit, the planned short side is at
\* most maxShortSide and the planned long side at most maxLongSide, and every
\* rasterize/encode attempt is made with exactly the planned dimensions.
C1_TargetWithinLimits ==
  (Planned /\ ~WithinLimits) =>
    /\ Min(width, height) <= cfg.maxShortSide
    /\ Max(width, height) <= cfg.maxLongSide
    /\ usedDims \subseteq {<<width, height>>}

C1_Witness ==
  /\ pc = "done"
  /\ ~WithinLimits
  /\ Len(tried) >= 2
  /\ usedDims = {<<width, height>>}
  /\ Min(width, height) = cfg.maxShortSide
  /\ width > height

\* C2: an image within both limits is not resized: the scale is 1 and the
\* target width and height are the decoded width and height.
C2_NoResizeWithinLimits ==
  (Planned /\ WithinLimits) =>
    /\ scale = <<1, 1>>
    /\ width = img.width
    /\ height = img.height

C2_Witness ==
  /\ pc = "done"
  /\ WithinLimits
  /\ img = [width |-> 500, height |-> 400]
  /\ cfg = DefaultConfig
  /\ usedDims = {<<500, 400>>}

\* C3: a file whose type does not start with "image/" is returned as it is,
\* with no decode, rasterize or encode call, and no later stage is entered.
C3_NonImagePassThrough ==
  ~DeclaredImage =>
    /\ pc \in {"start", "returned"}
    /\ calls = [decode |-> 0, rasterize |-> 0, encode |-> 0]
    /\ tried = <<>>
    /\ error = ""
    /\ result = IF pc = "returned" THEN {file} ELSE {}

C3_Witness ==
  /\ pc = "returned"
  /\ file.type = MimePdf
  /\ result = {file}

\* C4: with qualityStep > 0 and minQuality < initialQuality the loop makes at
\* most ceil((initialQuality - minQuality) / qualityStep) + 1 attempts, and it
\* is below that number whenever another attempt is due (so it terminates).
C4_AttemptsBounded ==
  LoopConfigValid =>
    /\ Len(tried) <= AttemptBound
    /\ calls.encode = Len(tried)
    /\ pc = "encode" => Len(tried) < AttemptBound

C4_Witness ==
  /\ LoopConfigValid
  /\ pc = "done"
  /\ allOver
  /\ Len(tried) >= 3
  /\ Len(tried) = AttemptBound - 1

\* C5: if the first attempt is within maxSizeBytes, it is the only attempt,
\* whatever initialQuality, minQuality and qualityStep are, and the output
\* holds that attempt's bytes.
C5_SingleAttemptWhenFirstFits ==
  firstFits =>
    /\ Len(tried) = 1
    /\ calls.encode = 1
    /\ pc \in {"build", "done", "error"}
    /\ pc = "done" => \A r \in result : r.bytes = lastBytes

C5_Witness ==
  /\ firstFits
  /\ pc = "done"
  /\ cfg.qualityStep = 0
  /\ cfg.minQuality < cfg.initialQuality
  /\ Len(lastBytes) >= 1
  /\ \E r \in result : r.bytes = lastBytes

\* C6: the output name ends with the canonical extension of the configured
\* output mime type (replacing an extension, or appended when there is none).
C6_NameHasCanonicalExtension ==
  pc = "done" =>
    \A r \in result : \E ext \in CanonicalExtensions(cfg.mimeType) : EndsWith(r.name, ext)

C8_TargetAtLeastOne ==
  (Planned /\ img.width >= 1 /\ img.height >= 1) => (width >= 1 /\ height >= 1)

\* C9: the planned dimensions never exceed the decoded ones.
C9_NeverUpscales ==
  Planned => (width <= img.width /\ height <= img.height)

C9_Witness ==
  /\ pc = "done"
  /\ ImgShort < cfg.maxShortSide
  /\ ImgLong > cfg.maxLongSide
  /\ width < img.width
  /\ height < img.height

\* C10: when every attempt is over maxSizeBytes, qualityStep > 0 and
\* initialQuality - minQuality is a multiple of qualityStep, the lowest
\* quality attempted is minQuality.
C10_FloorIsAttempted ==
  (/\ pc \in {"build", "done"}
   /\ allOver
   /\ LoopConfigValid
   /\ (cfg.initialQuality - cfg.minQuality) % cfg.qualityStep = 0)
    => LowestTried = cfg.minQuality

====
